---- MODULE Spec2Model ----
(***************************************************************************)
(* Household ledger (src/src/App.js): the dashboard's monthly summary and  *)
(* six-month trend, and the history view's filtered and sorted list, as    *)
(* state machines over the entries a ledger view holds.                    *)
(*                                                                         *)
(* Time.  A JavaScript Date is a count of milliseconds since an epoch in   *)
(* UTC.  Here a Date is a count of half-seconds ("ticks") since            *)
(* 2023-01-01T00:00:00Z, so that instants between two whole seconds exist. *)
(* The getters getFullYear/getMonth/getDate read the Date in the caller's  *)
(* time zone (tz hours east of UTC, no daylight saving); toISOString reads *)
(* it in UTC.  Months are 0-based as in JavaScript.                        *)
(*                                                                         *)
(* Text.  A string the program takes apart (a memo, a recorder id, what is *)
(* typed into the amount box, a CSV document) is a sequence of tokens: a   *)
(* token is one character, or a run of characters none of which the        *)
(* program or the CSV format treats specially.                             *)
(*                                                                         *)
(* Components.  A component is described by its state, its effects, its    *)
(* memoized values and its handlers.  Whether the markup of HistoryTab can *)
(* be built from a state is a separate predicate, HistoryTabThrows.        *)
(***************************************************************************)
EXTENDS Integers, Sequences, FiniteSets, TLC

VARIABLES
    tz,                       \* the caller's time-zone offset, hours east of UTC
    now,                      \* what `new Date()` returns
    activeTab,                \* App.activeTab: the mounted ledger view
    entries,                  \* the mounted view's `entries` state
    currentMonth,             \* DashboardTab.currentMonth (a Date)
    filteredEntries,          \* DashboardTab.filteredEntries (useMemo)
    summary,                  \* DashboardTab {totalIncome,totalExpense,netBalance,categoryExpenses}
    trendData,                \* DashboardTab.trendData (useMemo)
    filterMonth,              \* HistoryTab.filterMonth
    filterType,               \* HistoryTab.filterType
    filterCategory,           \* HistoryTab.filterCategory
    filterPaymentMethod,      \* HistoryTab.filterPaymentMethod
    filteredAndSortedEntries, \* HistoryTab.filteredAndSortedEntries (useMemo)
    userId,                   \* App.userId
    ledgerId,                 \* App.ledgerId
    modalContent,             \* App.modalContent: the message on display
    showModal,                \* App.showModal
    showLedgerSetup,          \* App.showLedgerSetup
    ledgerCalls,              \* the setDoc and getDoc calls the ledger handlers await
    localStorage,             \* localStorage's 'householdLedgerId', null when absent
    uncaught,                 \* the errors thrown that no code has caught
    form,                     \* InputTab: type, amount, category, paymentMethod, memo, date
    submitting,               \* the addDoc calls (by number) that handleSubmit awaits
    addDocCalls,              \* the entryData handed to addDoc so far
    downloads,                \* the files handleDownloadCsv has offered so far
    stored,                   \* the documents of the ledger's entries collection
    subscribed,               \* how many times onSnapshot has been called
    listeners,                \* the onSnapshot listeners not yet unsubscribed
    inFlight                  \* snapshots and errors the store has sent, not yet delivered

vars == <<tz, now, activeTab, entries, currentMonth, filteredEntries, summary,
          trendData, filterMonth, filterType, filterCategory,
          filterPaymentMethod, filteredAndSortedEntries, userId, ledgerId, modalContent,
          showModal, showLedgerSetup, ledgerCalls, localStorage, uncaught, form, submitting, addDocCalls, downloads, stored,
          subscribed, listeners, inFlight>>

dashVars == <<currentMonth, filteredEntries, summary, trendData>>
histVars == <<filterMonth, filterType, filterCategory, filterPaymentMethod,
              filteredAndSortedEntries>>
ledgerVars == <<showLedgerSetup, ledgerCalls, localStorage>>
appVars == <<userId, ledgerId, modalContent, showModal, ledgerVars, uncaught>>
inputVars == <<form, submitting, addDocCalls>>
storeVars == <<stored, subscribed, listeners, inFlight>>

-----------------------------------------------------------------------------
(* Bounds *)

\* the largest number of entries a delivered collection holds
MaxEntries == 2

\* how many months away from `now` a press of a month button may start
\* that leads further away
MaxShift == 1

\* the resolution of a Date: ticks per second
TicksPerSecond == 2

-----------------------------------------------------------------------------
(* The calendar behind Date *)

TicksPerHour == 60 * 60 * TicksPerSecond
TicksPerDay == 24 * TicksPerHour

Years == 2023..2026

IsLeap(y) == (y % 4 = 0 /\ y % 100 # 0) \/ y % 400 = 0

\* m is a 0-based month index
DaysInMonth(y, m) ==
    IF m = 1 THEN (IF IsLeap(y) THEN 29 ELSE 28)
    ELSE IF m \in {3, 5, 8, 10} THEN 30 ELSE 31

RECURSIVE DaysBeforeMonth(_, _)
DaysBeforeMonth(y, m) ==
    IF m = 0 THEN 0 ELSE DaysBeforeMonth(y, m - 1) + DaysInMonth(y, m - 1)

RECURSIVE DaysBeforeYear(_)
DaysBeforeYear(y) ==
    IF y <= 2023 THEN 0
    ELSE DaysBeforeYear(y - 1) + (IF IsLeap(y - 1) THEN 366 ELSE 365)

\* the day number on which month m of year y starts (day 0 is 2023-01-01)
FirstDay == [y \in Years |-> [m \in 0..11 |-> DaysBeforeYear(y) + DaysBeforeMonth(y, m)]]

\* the civil date of every day number of Years
Civil ==
    [n \in 0..(DaysBeforeYear(2027) - 1) |->
        LET y == CHOOSE yy \in Years :
                    DaysBeforeYear(yy) <= n /\ n < DaysBeforeYear(yy + 1)
            m == CHOOSE mm \in 0..11 :
                    FirstDay[y][mm] <= n /\ n < FirstDay[y][mm] + DaysInMonth(y, mm)
        IN  [year |-> y, month |-> m, date |-> n - FirstDay[y][m] + 1]]

YearOfDay(n) == Civil[n].year
MonthOfDay(n) == Civil[n].month
DateOfDay(n) == Civil[n].date

\* Date.UTC(y, m, d, h, mi, s): out-of-range months and days carry over
DateUTC(y, m, d, h, mi, s) ==
    (FirstDay[y + (m \div 12)][m % 12] + d - 1) * TicksPerDay
    + ((h * 60 + mi) * 60 + s) * TicksPerSecond

\* new Date(y, m, d, h, mi, s): the same fields read in the caller's zone
NewDate(y, m, d, h, mi, s) == DateUTC(y, m, d, h, mi, s) - tz * TicksPerHour

LocalDay(t) == (t + tz * TicksPerHour) \div TicksPerDay
GetFullYear(t) == YearOfDay(LocalDay(t))
GetMonth(t) == MonthOfDay(LocalDay(t))
GetDate(t) == DateOfDay(LocalDay(t))
TimeOfDay(t) == (t + tz * TicksPerHour) % TicksPerDay

GetUTCFullYear(t) == YearOfDay(t \div TicksPerDay)
GetUTCMonth(t) == MonthOfDay(t \div TicksPerDay)

\* n.toString().padStart(2, '0')
PadStart2(n) == IF n < 10 THEN "0" \o ToString(n) ELSE ToString(n)

\* date.toISOString().substring(0, 7): "YYYY-MM" of the UTC date
ISOMonth(t) == ToString(GetUTCFullYear(t)) \o "-" \o PadStart2(GetUTCMonth(t) + 1)

-----------------------------------------------------------------------------
(* Entries *)

\* the value of a property the object does not have
undefined == "<undefined>"

Get(e, f) == IF f \in DOMAIN e THEN e[f] ELSE undefined

\* entry.date?.toDate ? entry.date.toDate() : new Date(entry.date)
EntryDate(e) == e.date

\* Array.prototype.sort: stable.  compare[j][i] is what the comparator returns
\* for (s[j], s[i]): s[j] goes before s[i] when it is negative, and keeps its
\* place relative to s[i] when it is zero
StableSort(s, compare) ==
    LET rank == [i \in 1..Len(s) |->
                    Cardinality({j \in 1..Len(s) :
                        \/ compare[j][i] < 0
                        \/ j < i /\ compare[j][i] = 0}) + 1]
    IN  [k \in 1..Len(s) |-> s[CHOOSE i \in 1..Len(s) : rank[i] = k]]

RECURSIVE SeqSum(_)
SeqSum(s) == IF s = <<>> THEN 0 ELSE s[1] + SeqSum(Tail(s))

-----------------------------------------------------------------------------
(* JavaScript objects used as maps: a sequence of [key, value] in the order *)
(* the properties were created                                              *)

\* the array index a property name spells, or -1: such names are listed
\* first, in ascending numeric order, whenever the object is enumerated
CanonicalNumericIndex(k) == IF k = "7" THEN 7 ELSE -1

HasKey(obj, k) == \E i \in 1..Len(obj) : obj[i].key = k

ObjGet(obj, k) ==
    IF HasKey(obj, k)
    THEN obj[CHOOSE i \in 1..Len(obj) : obj[i].key = k].value
    ELSE undefined

ObjSet(obj, k, v) ==
    IF HasKey(obj, k)
    THEN [i \in 1..Len(obj) |-> IF obj[i].key = k THEN [key |-> k, value |-> v] ELSE obj[i]]
    ELSE Append(obj, [key |-> k, value |-> v])

IndexOrder(a, b) == CanonicalNumericIndex(a.key) - CanonicalNumericIndex(b.key)

\* Object.entries(obj) / Object.values(obj): own-property order
OwnProperties(obj) ==
    LET IsIndex(p) == CanonicalNumericIndex(p.key) >= 0
        IsName(p) == CanonicalNumericIndex(p.key) < 0
        indices == SelectSeq(obj, IsIndex)
    IN  StableSort(indices, [j \in 1..Len(indices) |-> [i \in 1..Len(indices) |->
                                IndexOrder(indices[j], indices[i])]])
        \o SelectSeq(obj, IsName)

-----------------------------------------------------------------------------
(* DashboardTab: the month's entries and their summary *)

\* (a, b) => dateB - dateA
DateDesc(a, b) == EntryDate(b) - EntryDate(a)

SortByDateDesc(s) ==
    StableSort(s, [j \in 1..Len(s) |-> [i \in 1..Len(s) |-> DateDesc(s[j], s[i])]])

MonthStart(cm) == NewDate(GetFullYear(cm), GetMonth(cm), 1, 0, 0, 0)
MonthEnd(cm) == NewDate(GetFullYear(cm), GetMonth(cm) + 1, 0, 23, 59, 59)

\* a test that looks at the end of the month only
InRangeUpToEnd(e, cm) == EntryDate(e) <= MonthEnd(cm)

\* entryDate >= start && entryDate <= end
InRange(e, cm) == EntryDate(e) >= MonthStart(cm) /\ EntryDate(e) <= MonthEnd(cm)

FilteredEntries(ents, cm) ==
    LET Test(e) == InRange(e, cm)
    IN  SortByDateDesc(SelectSeq(ents, Test))

\* the entries array after a filteredEntries that calls sort on entries itself
EntriesSortedInPlace(ents, cm) == SortByDateDesc(ents)

\* the entries array after filteredEntries has been computed: filter returns
\* a new array, and sort, which works in place, is called on that new array;
\* the summary and the trend read entries with forEach
EntriesAfterFilteredEntries(ents, cm) == ents

\* (categories[entry.category] || 0) + entry.amount
CategoryTotal(categories, e) ==
    (IF HasKey(categories, e.category) THEN ObjGet(categories, e.category) ELSE 0)
    + e.amount

\* a faulty variant of SummaryStep: the category total is overwritten by the
\* entry's amount instead of growing by it
SummaryStepOverwriting(acc, e) ==
    IF e.type = "income"
    THEN [acc EXCEPT !.income = @ + e.amount]
    ELSE [acc EXCEPT !.expense = @ + e.amount,
                     !.categories = ObjSet(@, e.category, e.amount)]

\* the body of filteredEntries.forEach
SummaryStep(acc, e) ==
    IF e.type = "income"
    THEN [acc EXCEPT !.income = @ + e.amount]
    ELSE [acc EXCEPT !.expense = @ + e.amount,
                     !.categories = ObjSet(@, e.category, CategoryTotal(@, e))]

RECURSIVE ForEachEntry(_, _)
ForEachEntry(fe, acc) ==
    IF fe = <<>> THEN acc ELSE ForEachEntry(Tail(fe), SummaryStep(acc, Head(fe)))

\* ([, a], [, b]) => b - a
TotalDesc(a, b) == b.value - a.value

\* Object.entries(categories).sort(...)
CategoryExpenses(categories) ==
    LET pairs == OwnProperties(categories)
    IN  StableSort(pairs, [j \in 1..Len(pairs) |-> [i \in 1..Len(pairs) |->
                              TotalDesc(pairs[j], pairs[i])]])

\* a faulty variant of NetBalance: the operands exchanged
NetBalanceExchanged(income, expense) == expense - income

\* netBalance: income - expense
NetBalance(income, expense) == income - expense

Summarize(fe) ==
    LET acc == ForEachEntry(fe, [income |-> 0, expense |-> 0, categories |-> <<>>])
    IN  [totalIncome |-> acc.income,
         totalExpense |-> acc.expense,
         netBalance |-> NetBalance(acc.income, acc.expense),
         categoryExpenses |-> CategoryExpenses(acc.categories)]

-----------------------------------------------------------------------------
(* DashboardTab: the six-month trend *)

\* the number of months the loop of trendData creates
TrendMonths == 6

\* `${date.getFullYear()}-${(date.getMonth() + 1).toString().padStart(2, '0')}`
MonthKey(t) == ToString(GetFullYear(t)) \o "-" \o PadStart2(GetMonth(t) + 1)

\* `${date.getMonth() + 1}월`: the characters of the label, the digits of the
\* month number as one token followed by the character that means "month"
MonthLabel(t) == <<GetMonth(t) + 1, "month">>

\* the loop: for (let i = 0; i < 6; i++) monthlyData[monthKey] = {...}
RECURSIVE InitMonthlyData(_, _, _)
InitMonthlyData(today, i, monthlyData) ==
    IF i >= TrendMonths THEN monthlyData
    ELSE LET date == NewDate(GetFullYear(today), GetMonth(today) - i, 1, 0, 0, 0)
         IN  InitMonthlyData(today, i + 1,
                 ObjSet(monthlyData, MonthKey(date),
                        [income |-> 0, expense |-> 0, month |-> MonthLabel(date)]))

\* a faulty variant of TrendStep: the type test never succeeds, so every
\* amount is counted as expense
TrendStepAllExpense(monthlyData, e) ==
    LET monthKey == MonthKey(EntryDate(e))
        bucket == ObjGet(monthlyData, monthKey)
    IN  IF HasKey(monthlyData, monthKey)
        THEN ObjSet(monthlyData, monthKey, [bucket EXCEPT !.expense = @ + e.amount])
        ELSE monthlyData

\* the body of entries.forEach in trendData
TrendStep(monthlyData, e) ==
    LET monthKey == MonthKey(EntryDate(e))
        bucket == ObjGet(monthlyData, monthKey)
    IN  IF HasKey(monthlyData, monthKey)
        THEN IF e.type = "income"
             THEN ObjSet(monthlyData, monthKey, [bucket EXCEPT !.income = @ + e.amount])
             ELSE ObjSet(monthlyData, monthKey, [bucket EXCEPT !.expense = @ + e.amount])
        ELSE monthlyData

RECURSIVE ForEachTrend(_, _)
ForEachTrend(ents, monthlyData) ==
    IF ents = <<>> THEN monthlyData
    ELSE ForEachTrend(Tail(ents), TrendStep(monthlyData, Head(ents)))

\* a.month.slice(0, -1).split('-').map(Number): the label without its last
\* character holds no '-', so the split yields one part, the month number
LabelNumbers(label) == SubSeq(label, 1, Len(label) - 1)

\* const [yearA, monthA] = ...: a missing element is undefined
Element(parts, i) == IF i <= Len(parts) THEN parts[i] ELSE undefined

\* the comparator of the final sort; undefined - undefined is NaN, which the
\* sort takes as 0
TrendOrder(a, b) ==
    LET partsA == LabelNumbers(a.value.month)
        partsB == LabelNumbers(b.value.month)
    IN  IF Element(partsA, 1) # Element(partsB, 1)
        THEN Element(partsA, 1) - Element(partsB, 1)
        ELSE IF Element(partsA, 2) = undefined \/ Element(partsB, 2) = undefined
        THEN 0
        ELSE Element(partsA, 2) - Element(partsB, 2)

TrendData(ents, today) ==
    LET monthlyData == ForEachTrend(ents, InitMonthlyData(today, 0, <<>>))
        values == OwnProperties(monthlyData)
        sorted == StableSort(values, [j \in 1..Len(values) |-> [i \in 1..Len(values) |->
                                 TrendOrder(values[j], values[i])]])
    IN  [k \in 1..Len(sorted) |-> sorted[k].value]

-----------------------------------------------------------------------------
(* App, InputTab and the store before anything has happened *)

\* the value of a state that holds no object yet
null == "<null>"

\* the main view on display: a ledger chosen, nobody signed in yet, no message
AppMounted ==
    /\ userId = null
    /\ ledgerId = "ledger-1"
    /\ modalContent = <<>>
    /\ showModal = FALSE
    /\ showLedgerSetup = FALSE
    /\ ledgerCalls = {}
    /\ localStorage = "ledger-1"
    /\ uncaught = {}

\* onAuthStateChanged's callback with a user: setUserId(user.uid) and
\* setIsAuthReady(true); the effect on [isAuthReady, ledgerId] then shows the
\* ledger setup exactly when no ledger is chosen
OnAuthStateChanged ==
    /\ userId = null
    /\ userId' = "user-1"
    /\ showLedgerSetup' = (ledgerId = "")
    /\ UNCHANGED <<tz, now, activeTab, entries, dashVars, histVars, ledgerId,
                   modalContent, showModal, ledgerCalls, localStorage, uncaught,
                   inputVars, downloads, storeVars>>

\* new Date().toISOString().split('T')[0]: the UTC day as "YYYY-MM-DD"
ISODate(t) ==
    [year |-> GetUTCFullYear(t), month |-> GetUTCMonth(t) + 1,
     day |-> DateOfDay(t \div TicksPerDay)]

\* the initial values of InputTab's fields
FreshForm ==
    [type |-> "expense", amount |-> <<>>, category |-> "",
     paymentMethod |-> "", memo |-> <<>>, date |-> ISODate(now)]

\* InputTab mounted, and no addDoc called yet
InputTabMounted ==
    /\ form = FreshForm
    /\ submitting = {}
    /\ addDocCalls = <<>>

\* an empty collection that nobody listens to yet, and nothing downloaded
StoreIdle ==
    /\ stored = <<>>
    /\ subscribed = 0
    /\ listeners = {}
    /\ inFlight = {}
    /\ downloads = <<>>

-----------------------------------------------------------------------------
(* DashboardTab: state changes *)

\* newMonth.setMonth(m): the month replaced, day of month and time kept
SetMonth(t, m) == NewDate(GetFullYear(t), m, GetDate(t), 0, 0, 0) + TimeOfDay(t)

MonthNumber(t) == GetFullYear(t) * 12 + GetMonth(t)

\* the documents the store holds carry ids in the order it lists them
WithId(doc, n) == [id |-> n] @@ doc

\* onSnapshot's callback after a document was added: setEntries(fetchedEntries),
\* then the render recomputes the memoized values that depend on entries
DashboardSnapshot(doc) ==
    /\ activeTab = "dashboard"
    /\ Len(entries) < MaxEntries
    /\ LET fetchedEntries == Append(entries, WithId(doc, Len(entries) + 1))
       IN  entries' = EntriesAfterFilteredEntries(fetchedEntries, currentMonth)
    /\ filteredEntries' = FilteredEntries(entries', currentMonth)
    /\ summary' = Summarize(filteredEntries')
    /\ trendData' = TrendData(entries', now)
    /\ UNCHANGED <<tz, now, activeTab, currentMonth, histVars>>
    /\ UNCHANGED <<appVars, inputVars, downloads, storeVars>>

\* the effects of one render have run before the next state change is
\* rendered: the dashboard's listener, if there is one, is that of currentMonth
EffectsFlushed ==
    \A l \in listeners : l.view = "dashboard" => l.deps = currentMonth

\* handleMonthChange(direction); trendData depends on entries alone
HandleMonthChange(direction) ==
    /\ activeTab = "dashboard"
    /\ EffectsFlushed
    /\ direction * (MonthNumber(currentMonth) - MonthNumber(now)) < MaxShift
    /\ currentMonth' = SetMonth(currentMonth, GetMonth(currentMonth) + direction)
    /\ entries' = EntriesAfterFilteredEntries(entries, currentMonth')
    /\ filteredEntries' = FilteredEntries(entries, currentMonth')
    /\ summary' = Summarize(filteredEntries')
    /\ UNCHANGED <<tz, now, activeTab, trendData, histVars>>
    /\ UNCHANGED <<appVars, inputVars, downloads, storeVars>>

\* DashboardTab mounted: entries = [], currentMonth = new Date()
DashboardMounted ==
    /\ activeTab = "dashboard"
    /\ entries = <<>>
    /\ currentMonth = now
    /\ filteredEntries = FilteredEntries(<<>>, now)
    /\ summary = Summarize(<<>>)
    /\ trendData = TrendData(<<>>, now)
    /\ filterMonth = ISOMonth(now)
    /\ filterType = "all"
    /\ filterCategory = "all"
    /\ filterPaymentMethod = "all"
    /\ filteredAndSortedEntries = <<>>

-----------------------------------------------------------------------------
(* HistoryTab: the filtered and sorted list *)

\* entryDate.toISOString().substring(0, 7)
EntryMonth(e) == ISOMonth(EntryDate(e))

MatchesMonth(e, fMonth) == fMonth = "all" \/ EntryMonth(e) = fMonth
MatchesType(e, fType) == fType = "all" \/ e.type = fType
MatchesCategory(e, fCategory) == fCategory = "all" \/ e.category = fCategory

\* a faulty variant of MatchesPaymentMethod: an entry without a payment method
\* passes every payment-method filter
MatchesPaymentMethodOrNone(e, fMethod) ==
    fMethod = "all" \/ Get(e, "paymentMethod") = undefined
    \/ Get(e, "paymentMethod") = fMethod

MatchesPaymentMethod(e, fMethod) == fMethod = "all" \/ Get(e, "paymentMethod") = fMethod

\* the callback of entries.filter
EntryMatches(e, fMonth, fType, fCategory, fMethod) ==
    /\ MatchesMonth(e, fMonth)
    /\ MatchesType(e, fType)
    /\ MatchesCategory(e, fCategory)
    /\ MatchesPaymentMethod(e, fMethod)

\* a faulty variant of HistoryOrder: ascending
HistoryOrderAscending(a, b) == EntryDate(a) - EntryDate(b)

\* the comparator of filtered.sort: (a, b) => dateB - dateA
HistoryOrder(a, b) == EntryDate(b) - EntryDate(a)

FilteredAndSortedEntries(ents, fMonth, fType, fCategory, fMethod) ==
    LET Test(e) == EntryMatches(e, fMonth, fType, fCategory, fMethod)
        filtered == SelectSeq(ents, Test)
    IN  StableSort(filtered, [j \in 1..Len(filtered) |-> [i \in 1..Len(filtered) |->
                                 HistoryOrder(filtered[j], filtered[i])]])

\* the entries array after filteredAndSortedEntries has been computed:
\* `filtered` is the new array that filter returns, and filtered.sort sorts it
EntriesAfterFilteredAndSortedEntries(ents) == ents

\* onSnapshot's callback of HistoryTab after a document was added
HistorySnapshot(doc) ==
    /\ activeTab = "history"
    /\ Len(entries) < MaxEntries
    /\ LET fetchedEntries == Append(entries, WithId(doc, Len(entries) + 1))
       IN  entries' = EntriesAfterFilteredAndSortedEntries(fetchedEntries)
    /\ filteredAndSortedEntries' =
          FilteredAndSortedEntries(entries', filterMonth, filterType,
                                   filterCategory, filterPaymentMethod)
    /\ UNCHANGED <<tz, now, activeTab, dashVars, filterMonth, filterType,
                   filterCategory, filterPaymentMethod>>
    /\ UNCHANGED <<appVars, inputVars, downloads, storeVars>>

-----------------------------------------------------------------------------
(* The summary of a month: inputs and specification *)

\* New York (standard time) and Seoul
TimeZones == {0 - 5, 9}

Amounts == {1, 2}

\* 2024-03-01 and 2024-03-05 at 00:00 UTC (the input form stores a day as its
\* UTC midnight), and the instant half-way through the last second of March
\* 2024 in New York (2024-04-01T04:59:59.5Z)
SummaryDates ==
    {DateUTC(2024, 2, 1, 0, 0, 0), DateUTC(2024, 2, 5, 0, 0, 0),
     DateUTC(2024, 3, 1, 4, 59, 59) + 1}

IncomeDocs(dates, amounts) ==
    [date : dates, type : {"income"}, amount : amounts, category : {"Salary"},
     memo : {""}, recordedBy : {"user-1"}]

ExpenseDocs(dates, amounts, categories, methods) ==
    [date : dates, type : {"expense"}, amount : amounts, category : categories,
     paymentMethod : methods, memo : {""}, recordedBy : {"user-1"}]

SummaryDocs ==
    IncomeDocs(SummaryDates, Amounts)
    \union ExpenseDocs(SummaryDates, Amounts, {"Food", "Transport", "7"}, {"Cash"})

InitSummary ==
    /\ tz \in TimeZones
    /\ now = DateUTC(2024, 2, 15, 3, 0, 0)
    /\ DashboardMounted
    /\ AppMounted /\ InputTabMounted /\ StoreIdle

NextSummary ==
    \/ \E doc \in SummaryDocs : DashboardSnapshot(doc)
    \/ \E direction \in {0 - 1, 1} : HandleMonthChange(direction)

SpecSummary == InitSummary /\ [][NextSummary]_vars

-----------------------------------------------------------------------------
(* The trend: inputs and specification *)

\* 2023-09-15, 2023-12-10, 2024-03-01 and 2024-07-10, all at 00:00 UTC
TrendDates ==
    {DateUTC(2023, 8, 15, 0, 0, 0), DateUTC(2023, 11, 10, 0, 0, 0),
     DateUTC(2024, 2, 1, 0, 0, 0), DateUTC(2024, 6, 10, 0, 0, 0)}

TrendDocs ==
    IncomeDocs(TrendDates, Amounts) \union ExpenseDocs(TrendDates, Amounts, {"Food"}, {"Cash"})

\* 2024-03-15 and 2024-07-15, 03:00 UTC
TrendNows == {DateUTC(2024, 2, 15, 3, 0, 0), DateUTC(2024, 6, 15, 3, 0, 0)}

InitTrend ==
    /\ tz \in TimeZones
    /\ now \in TrendNows
    /\ DashboardMounted
    /\ AppMounted /\ InputTabMounted /\ StoreIdle

NextTrend ==
    \/ \E doc \in TrendDocs : DashboardSnapshot(doc)
    \/ \E direction \in {0 - 1, 1} : HandleMonthChange(direction)

SpecTrend == InitTrend /\ [][NextTrend]_vars

-----------------------------------------------------------------------------
(* What the dashboard is to show, stated on the calendar *)

\* the date t lies in the calendar month of cm, in the caller's zone
InMonthOf(t, cm) == GetFullYear(t) = GetFullYear(cm) /\ GetMonth(t) = GetMonth(cm)

\* the sum of amount over the entries of ents that satisfy P
Total(ents, P(_)) ==
    LET picked == SelectSeq(ents, P)
    IN  SeqSum([i \in 1..Len(picked) |-> picked[i].amount])

IncomeOfMonth(ents, cm) ==
    LET P(e) == e.type = "income" /\ InMonthOf(EntryDate(e), cm)
    IN  Total(ents, P)

ExpenseOfMonth(ents, cm) ==
    LET P(e) == e.type = "expense" /\ InMonthOf(EntryDate(e), cm)
    IN  Total(ents, P)

\* C2: totalIncome and totalExpense are the sums of amount over exactly the
\* Income and the Expense entries dated in the selected calendar month, from
\* its first instant to its last, whatever the precision of the timestamps.
C2_SummaryCoversWholeMonth ==
    activeTab = "dashboard" =>
        /\ summary.totalIncome = IncomeOfMonth(entries, currentMonth)
        /\ summary.totalExpense = ExpenseOfMonth(entries, currentMonth)

BreakdownTotals == [i \in 1..Len(summary.categoryExpenses) |-> summary.categoryExpenses[i].value]

C4_NetBalanceIsIncomeMinusExpense ==
    activeTab = "dashboard" =>
        /\ summary.netBalance = summary.totalIncome - summary.totalExpense
        /\ (summary.netBalance < 0) <=> (summary.totalExpense > summary.totalIncome)

C4_Witness ==
    /\ summary.totalIncome > 0
    /\ summary.totalExpense > summary.totalIncome
    /\ summary.netBalance < 0

\* the position in entries of the first aggregated Expense entry of category c
FirstEncounter(c) ==
    CHOOSE j \in 1..Len(entries) :
        /\ entries[j].type = "expense" /\ entries[j].category = c
        /\ InRange(entries[j], currentMonth)
        /\ \A k \in 1..(j - 1) :
              ~(entries[k].type = "expense" /\ entries[k].category = c
                /\ InRange(entries[k], currentMonth))

\* C5: the category breakdown is ordered by total descending, and categories
\* with equal totals appear in the order in which each is first encountered
\* in the entry collection, for every category label.
C5_BreakdownTiesInFirstEncounterOrder ==
    activeTab = "dashboard" =>
        \A i, j \in 1..Len(summary.categoryExpenses) :
            i < j =>
                LET a == summary.categoryExpenses[i]
                    b == summary.categoryExpenses[j]
                IN  /\ a.value >= b.value
                    /\ a.value = b.value => FirstEncounter(a.key) < FirstEncounter(b.key)

\* the label of the month with month number mn (12 * year + month index)
LabelOf(mn) == <<(mn % 12) + 1, "month">>

\* C1: the trend series has exactly 6 elements, one per calendar month of the
\* window that ends at the current month, oldest first, for every current
\* date and whatever the order of the entries.
C1_TrendIsChronological ==
    activeTab = "dashboard" =>
        /\ Len(trendData) = TrendMonths
        /\ \A k \in 1..TrendMonths :
              trendData[k].month = LabelOf(MonthNumber(now) - (TrendMonths - k))

IncomeOfMonthNumber(ents, mn) ==
    LET P(e) == e.type = "income" /\ MonthNumber(EntryDate(e)) = mn
    IN  Total(ents, P)

ExpenseOfMonthNumber(ents, mn) ==
    LET P(e) == e.type = "expense" /\ MonthNumber(EntryDate(e)) = mn
    IN  Total(ents, P)

TrendWindow == {MonthNumber(now) - i : i \in 0..(TrendMonths - 1)}

\* C6: the bucket of each month of the window holds, as income and expense,
\* the sums of amount over the Income and the Expense entries of that year
\* and month; entries outside the window change no bucket, and a month
\* without entries has income 0 and expense 0.
C6_TrendBucketsHoldTheirMonth ==
    activeTab = "dashboard" =>
        /\ Len(trendData) = TrendMonths
        /\ \A mn \in TrendWindow :
              \E k \in 1..Len(trendData) :
                  /\ trendData[k].month = LabelOf(mn)
                  /\ trendData[k].income = IncomeOfMonthNumber(entries, mn)
                  /\ trendData[k].expense = ExpenseOfMonthNumber(entries, mn)

C6_Witness ==
    /\ Len(entries) = 2
    /\ MonthNumber(EntryDate(entries[1])) \notin TrendWindow
    /\ MonthNumber(EntryDate(entries[2])) \in TrendWindow
    /\ \E k \in 1..Len(trendData) : trendData[k].income + trendData[k].expense > 0
    /\ \E k \in 1..Len(trendData) : trendData[k].income = 0 /\ trendData[k].expense = 0

-----------------------------------------------------------------------------
(* The dashboard while the clock runs *)

\* the system clock, which new Date() reads, has moved on to the instant t;
\* no state of a component changes, so nothing is rendered
ClockAdvances(t) ==
    /\ t > now
    /\ now' = t
    /\ UNCHANGED <<tz, activeTab, entries, dashVars, histVars>>
    /\ UNCHANGED <<appVars, inputVars, downloads, storeVars>>

\* 2024-07-15 03:00, 2024-07-31 20:00 (the 1st of August in Seoul) and
\* 2024-08-15 03:00, UTC
ClockNows ==
    {DateUTC(2024, 6, 15, 3, 0, 0), DateUTC(2024, 6, 31, 20, 0, 0),
     DateUTC(2024, 7, 15, 3, 0, 0)}

ClockDocs ==
    IncomeDocs({DateUTC(2024, 6, 10, 0, 0, 0)}, Amounts)
    \union ExpenseDocs({DateUTC(2024, 7, 10, 0, 0, 0)}, Amounts, {"Food"}, {"Cash"})

InitClock ==
    /\ tz \in TimeZones
    /\ now = DateUTC(2024, 6, 15, 3, 0, 0)
    /\ DashboardMounted
    /\ AppMounted /\ InputTabMounted /\ StoreIdle

NextClock ==
    \/ \E t \in ClockNows : ClockAdvances(t)
    \/ \E doc \in ClockDocs : DashboardSnapshot(doc)
    \/ \E direction \in {0 - 1, 1} : HandleMonthChange(direction)

SpecClock == InitClock /\ [][NextClock]_vars

\* C24: while the dashboard is on display the last bucket of the trend is the
\* caller's current calendar month, also after the month has changed with no
\* snapshot delivered since
C24_TrendEndsAtCurrentMonth ==
    activeTab = "dashboard" =>
        /\ trendData # <<>>
        /\ trendData[Len(trendData)].month = LabelOf(MonthNumber(now))

-----------------------------------------------------------------------------
(* The query of the history view: inputs and specification *)

\* 2024-02-20, 2024-03-01 and 2024-03-05, all at 00:00 UTC
QueryDates ==
    {DateUTC(2024, 1, 20, 0, 0, 0), DateUTC(2024, 2, 1, 0, 0, 0),
     DateUTC(2024, 2, 5, 0, 0, 0)}

QueryDocs ==
    IncomeDocs(QueryDates, {1})
    \union ExpenseDocs(QueryDates, {1}, {"Food"}, {"Cash", "Card"})
    \union ExpenseDocs(QueryDates, {1}, {"Transport"}, {"Cash"})

\* the filter record: each field 'all' or a value; the month selector gives
\* "YYYY-MM", or "" when it is cleared
FilterMonths == {"all", "", "2024-02", "2024-03"}
FilterTypes == {"all", "income", "expense"}
FilterCategories == {"all", "Food", "Salary"}
FilterPaymentMethods == {"all", "Card"}

\* HistoryTab mounted with a given filter: entries = []
InitQuery ==
    /\ tz \in TimeZones
    /\ now = DateUTC(2024, 2, 15, 3, 0, 0)
    /\ activeTab = "history"
    /\ entries = <<>>
    /\ filterMonth \in FilterMonths
    /\ filterType \in FilterTypes
    /\ filterCategory \in FilterCategories
    /\ filterPaymentMethod \in FilterPaymentMethods
    /\ filteredAndSortedEntries = <<>>
    /\ currentMonth = now
    /\ filteredEntries = <<>>
    /\ summary = Summarize(<<>>)
    /\ trendData = <<>>
    /\ AppMounted /\ InputTabMounted /\ StoreIdle

NextQuery == \E doc \in QueryDocs : HistorySnapshot(doc)

SpecQuery == InitQuery /\ [][NextQuery]_vars

-----------------------------------------------------------------------------
(* What the history view is to list *)

\* a filter field that is set: any value but 'all'
IsSet(f) == f # "all"

\* e satisfies every predicate of the filter that is set
SatisfiesFilter(e) ==
    /\ IsSet(filterMonth) =>
          ToString(GetUTCFullYear(EntryDate(e))) \o "-"
              \o PadStart2(GetUTCMonth(EntryDate(e)) + 1) = filterMonth
    /\ IsSet(filterType) => e.type = filterType
    /\ IsSet(filterCategory) => e.category = filterCategory
    /\ IsSet(filterPaymentMethod) =>
          "paymentMethod" \in DOMAIN e /\ e.paymentMethod = filterPaymentMethod

Listed(e) == \E k \in 1..Len(filteredAndSortedEntries) : filteredAndSortedEntries[k] = e

\* C7: the list holds only entries of E, each satisfying every set predicate
\* and each such entry once; no Income entry is listed under a payment-method
\* filter; with no field set the list is all of E by date descending.
C7_QueryIsTheConjunctionOfSetPredicates ==
    activeTab = "history" =>
        /\ \A k \in 1..Len(filteredAndSortedEntries) :
              /\ \E j \in 1..Len(entries) : entries[j] = filteredAndSortedEntries[k]
              /\ SatisfiesFilter(filteredAndSortedEntries[k])
              /\ IsSet(filterPaymentMethod) => filteredAndSortedEntries[k].type # "income"
        /\ \A j \in 1..Len(entries) :
              SatisfiesFilter(entries[j]) =>
                  Cardinality({k \in 1..Len(filteredAndSortedEntries) :
                                   filteredAndSortedEntries[k] = entries[j]}) = 1
        /\ (~IsSet(filterMonth) /\ ~IsSet(filterType) /\ ~IsSet(filterCategory)
            /\ ~IsSet(filterPaymentMethod)) =>
              /\ Len(filteredAndSortedEntries) = Len(entries)
              /\ \A k \in 1..(Len(filteredAndSortedEntries) - 1) :
                    EntryDate(filteredAndSortedEntries[k])
                        >= EntryDate(filteredAndSortedEntries[k + 1])

C7_Witness ==
    /\ activeTab = "history"
    /\ filterMonth = "2024-03" /\ filterType = "all"
    /\ filterCategory = "all" /\ filterPaymentMethod = "Card"
    /\ Len(entries) = 2 /\ Len(filteredAndSortedEntries) = 1
    /\ \E j \in 1..Len(entries) :
          entries[j].type = "income" /\ EntryMonth(entries[j]) = "2024-03"

\* a filter field that constrains: neither empty nor 'all'
Constrains(f) == f \notin {"", "all"}

SatisfiesConstraining(e) ==
    /\ Constrains(filterMonth) => EntryMonth(e) = filterMonth
    /\ Constrains(filterType) => e.type = filterType
    /\ Constrains(filterCategory) => e.category = filterCategory
    /\ Constrains(filterPaymentMethod) => Get(e, "paymentMethod") = filterPaymentMethod

\* C8: a filter field that is empty or 'all' imposes no constraint: the list
\* holds exactly the entries that satisfy the other, constraining, fields.
C8_AbsentFieldImposesNoConstraint ==
    activeTab = "history" =>
        \A j \in 1..Len(entries) : Listed(entries[j]) <=> SatisfiesConstraining(entries[j])

\* C10: the list is ordered by date descending, and entries of equal date
\* keep the relative order they have in E.
C10_ListIsDateDescendingAndStable ==
    activeTab = "history" =>
        \A k, l \in 1..Len(filteredAndSortedEntries) :
            k < l =>
                LET a == filteredAndSortedEntries[k]
                    b == filteredAndSortedEntries[l]
                IN  /\ EntryDate(a) >= EntryDate(b)
                    /\ EntryDate(a) = EntryDate(b) => a.id < b.id

C10_Witness ==
    /\ activeTab = "history"
    /\ Len(filteredAndSortedEntries) = 2
    /\ EntryDate(filteredAndSortedEntries[1]) = EntryDate(filteredAndSortedEntries[2])
    /\ filteredAndSortedEntries[1].category # filteredAndSortedEntries[2].category

\* the month M the dashboard shows, as the month selector of the history
\* view spells it
SelectedMonth == MonthKey(currentMonth)

\* C9: for every timestamp and every time-zone offset, an entry is listed by
\* the query for month M exactly when the summary of M aggregates it.
C9_QueryMonthIsSummaryMonth ==
    activeTab = "dashboard" =>
        \A j \in 1..Len(entries) :
            (Constrains(SelectedMonth) /\ MatchesMonth(entries[j], SelectedMonth))
                <=> (\E k \in 1..Len(filteredEntries) : filteredEntries[k] = entries[j])

\* C28: while the selected month lies inside the trend window, the trend
\* bucket of that month has the summary's totalIncome as income and its
\* totalExpense as expense, whatever the precision of the entries' dates
C28_TrendBucketEqualsSummary ==
    activeTab = "dashboard" /\ MonthNumber(currentMonth) \in TrendWindow =>
        \E k \in 1..Len(trendData) :
            /\ trendData[k].month = LabelOf(MonthNumber(currentMonth))
            /\ trendData[k].income = summary.totalIncome
            /\ trendData[k].expense = summary.totalExpense

\* no entry of the collection falls in the selected calendar month
NoEntryInSelectedMonth ==
    \A k \in 1..Len(entries) : ~InMonthOf(EntryDate(entries[k]), currentMonth)

\* C23: when no entry falls in the selected month, and so for the empty
\* collection, the summary has the three totals at zero and an empty breakdown
C23_EmptyMonthSummarizesToZero ==
    NoEntryInSelectedMonth =>
        /\ summary.totalIncome = 0
        /\ summary.totalExpense = 0
        /\ summary.netBalance = 0
        /\ summary.categoryExpenses = <<>>

\* the collection holds an expense, the selected month holds no entry, and
\* the summary is the empty one
C23_Witness ==
    /\ \E k \in 1..Len(entries) : entries[k].type = "expense"
    /\ NoEntryInSelectedMonth
    /\ MonthNumber(currentMonth) # MonthNumber(now)
    /\ summary = [totalIncome |-> 0, totalExpense |-> 0, netBalance |-> 0,
                  categoryExpenses |-> <<>>]

-----------------------------------------------------------------------------
(* The entries collection and its listeners *)

\* how many times one run calls onSnapshot
MaxListeners == 2

\* how many documents other clients add to the collection in one run
MaxWrites == 1

\* the setDoc and getDoc calls of the ledger handlers that may be pending at once
MaxLedgerCalls == 2

\* the snapshot of the collection as it stands, for one listener
Snapshot(listener, docs) ==
    [listener |-> listener.id, kind |-> "snapshot", seq |-> Len(docs), docs |-> docs]

\* a document is added to the collection: every listener that has not ended
\* is sent the new state of the collection
Written(doc) ==
    /\ stored' = Append(stored, WithId(doc, Len(stored) + 1))
    /\ inFlight' = inFlight \union
                      {Snapshot(l, stored') : l \in {x \in listeners : ~x.ended}}
    /\ UNCHANGED <<subscribed, listeners>>

-----------------------------------------------------------------------------
(* App: the message modal *)

\* showMessage's two assignments: setModalContent(message); setShowModal(true)
SetModal(message) ==
    /\ modalContent' = message
    /\ showModal' = TRUE

\* showMessage(message), called by a handler that changes nothing else of App
ShowMessage(message) ==
    /\ SetModal(message)
    /\ UNCHANGED <<userId, ledgerId, ledgerVars, uncaught>>

\* closeModal()
CloseModal ==
    /\ showModal
    /\ showModal' = FALSE
    /\ modalContent' = <<>>
    /\ UNCHANGED <<tz, now, activeTab, entries, dashVars, histVars, userId,
                   ledgerId, ledgerVars, uncaught, inputVars, downloads, storeVars>>

-----------------------------------------------------------------------------
(* HistoryTab: handleDownloadCsv *)

\* how many files one run offers for download
MaxDownloads == 1

Quote == "\""
Comma == ","
NewLine == "\n"
\* the byte-order mark U+FEFF
BOM == "<U+FEFF>"

Has(e, f) == f \in DOMAIN e

\* `"${text}"`
InQuotes(text) == <<Quote>> \o text \o <<Quote>>

\* text.replace(/"/g, '""')
RECURSIVE ReplaceQuotes(_)
ReplaceQuotes(text) ==
    IF text = <<>> THEN <<>>
    ELSE (IF Head(text) = Quote THEN <<Quote, Quote>> ELSE <<Head(text)>>)
         \o ReplaceQuotes(Tail(text))

\* text.substring(0, n), for a text of one-character tokens
Substring(text, n) == SubSeq(text, 1, IF Len(text) < n THEN Len(text) ELSE n)

\* array.join(separator)
RECURSIVE Join(_, _)
Join(texts, separator) ==
    IF texts = <<>> THEN <<>>
    ELSE IF Len(texts) = 1 THEN texts[1]
    ELSE texts[1] \o <<separator>> \o Join(Tail(texts), separator)

\* toLocaleDateString('ko-KR'): "2024. 3. 1." in the caller's time zone
DateStr(e) ==
    <<ToString(GetFullYear(EntryDate(e))) \o ". " \o ToString(GetMonth(EntryDate(e)) + 1)
        \o ". " \o ToString(GetDate(EntryDate(e))) \o ".">>

\* the labels of income and expense
TypeLabel(e) == IF e.type = "income" THEN <<"su-ip">> ELSE <<"ji-chul">>

\* `${entry.category}`
CategoryText(e) == IF Has(e, "category") THEN e.category ELSE <<"undefined">>

\* entry.paymentMethod || ''
PaymentMethodText(e) == IF Has(e, "paymentMethod") THEN e.paymentMethod ELSE <<>>

\* entry.memo?.replace(/"/g, '""') || ''
MemoText(e) == IF Has(e, "memo") THEN ReplaceQuotes(e.memo) ELSE <<>>

\* entry.recordedBy?.substring(0, 8) || ''
RecorderText(e) == IF Has(e, "recordedBy") THEN Substring(e.recordedBy, 8) ELSE <<>>

\* the row array of one entry, joined with commas
CsvRow(e) ==
    Join(<<InQuotes(DateStr(e)), InQuotes(TypeLabel(e)), InQuotes(CategoryText(e)),
           <<ToString(e.amount)>>, InQuotes(PaymentMethodText(e)),
           InQuotes(MemoText(e)), InQuotes(RecorderText(e))>>, Comma)

headers == <<"nal-jja", "yu-hyeong", "ka-te-go-ri", "geum-aek", "gyeol-je-su-dan",
             "me-mo", "gi-rok-ja">>

\* csvRows: the quoted headers, then one row per listed entry
CsvRows(list) ==
    <<Join([k \in 1..Len(headers) |-> InQuotes(<<headers[k]>>)], Comma)>>
    \o [k \in 1..Len(list) |-> CsvRow(list[k])]

\* a csvString without the mark in front
CsvStringWithoutBOM(list) == Join(CsvRows(list), NewLine)

\* csvString: '\ufeff' + csvRows.join('\n')
CsvString(list) == <<BOM>> \o Join(CsvRows(list), NewLine)

\* link.download: filterMonth || 'jeon-che' between the stem and ".csv"
DownloadName == <<"ledger_", IF filterMonth = "" THEN "jeon-che" ELSE filterMonth, ".csv">>

NothingToDownload == <<"no entries to download">>
CsvDownloaded == <<"CSV file downloaded">>

\* a click on an empty list that offers the header row alone
HandleDownloadCsvHeaderOnly ==
    /\ filteredAndSortedEntries = <<>>
    /\ Len(downloads) < MaxDownloads
    /\ downloads' = Append(downloads, [download |-> DownloadName,
                                       text |-> CsvString(<<>>)])
    /\ ShowMessage(CsvDownloaded)

\* a click on the download button while the list is empty
HandleDownloadCsvEmpty ==
    /\ filteredAndSortedEntries = <<>>
    /\ ShowMessage(NothingToDownload)
    /\ UNCHANGED downloads

\* the same click on a list with entries
HandleDownloadCsvFile ==
    /\ filteredAndSortedEntries # <<>>
    /\ Len(downloads) < MaxDownloads
    /\ downloads' = Append(downloads, [download |-> DownloadName,
                                       text |-> CsvString(filteredAndSortedEntries)])
    /\ ShowMessage(CsvDownloaded)

HandleDownloadCsv ==
    /\ activeTab = "history"
    /\ \/ HandleDownloadCsvEmpty
       \/ HandleDownloadCsvFile
    /\ UNCHANGED <<tz, now, activeTab, entries, dashVars, histVars, inputVars, storeVars>>

-----------------------------------------------------------------------------
(* The export: inputs and specification *)

\* 2024-02-20, 2024-03-01 and 2024-03-05, all at 00:00 UTC
ExportDates ==
    {DateUTC(2024, 1, 20, 0, 0, 0), DateUTC(2024, 2, 1, 0, 0, 0),
     DateUTC(2024, 2, 5, 0, 0, 0)}

\* a plain label, and a label with a double quote in it
ExportCategories == {<<"Food">>, <<"a", Quote, "b">>}

\* He said "hi"   and   a,b<newline>c
ExportMemos == {<<"He said ", Quote, "hi", Quote>>, <<"a", Comma, "b", NewLine, "c">>}

\* a recorder id of nine characters
ExportRecorder == <<"u", "s", "e", "r", "-", "1", "2", "3", "4">>

\* documents as the input form writes them, and as a client that leaves the
\* memo out writes them
ExportDocs ==
    [date : ExportDates, type : {"income"}, amount : {1},
     category : ExportCategories, memo : ExportMemos, recordedBy : {ExportRecorder}]
    \union
    [date : ExportDates, type : {"expense"}, amount : {1}, category : {<<"Food">>},
     paymentMethod : {<<"Card">>}, memo : {<<"He said ", Quote, "hi", Quote>>},
     recordedBy : {ExportRecorder}]
    \union
    [date : ExportDates, type : {"income"}, amount : {1},
     category : ExportCategories, recordedBy : {ExportRecorder}]

\* HistoryTab mounted: filterMonth = new Date().toISOString().substring(0, 7)
InitExport ==
    /\ tz = 9
    /\ now = DateUTC(2024, 2, 15, 3, 0, 0)
    /\ activeTab = "history"
    /\ entries = <<>>
    /\ filterMonth = ISOMonth(now)
    /\ filterType = "all"
    /\ filterCategory = "all"
    /\ filterPaymentMethod = "all"
    /\ filteredAndSortedEntries = <<>>
    /\ currentMonth = now
    /\ filteredEntries = <<>>
    /\ summary = Summarize(<<>>)
    /\ trendData = <<>>
    /\ AppMounted /\ InputTabMounted /\ StoreIdle

NextExport ==
    \/ \E doc \in ExportDocs : HistorySnapshot(doc)
    \/ HandleDownloadCsv
    \/ CloseModal

SpecExport == InitExport /\ [][NextExport]_vars

-----------------------------------------------------------------------------
(* Claims about the export *)

\* Reading delimited text with the usual quoting rules: a field that opens
\* with a double quote runs to the next double quote that is not doubled, a
\* doubled double quote inside it stands for one; commas separate fields and
\* newlines separate rows outside quotes.  Text after a closing quote is kept
\* as it stands, so every text has a reading.
EndField(ps) ==
    [state |-> "start", field |-> <<>>, row |-> Append(ps.row, ps.field), rows |-> ps.rows]

EndRow(ps) ==
    [state |-> "start", field |-> <<>>, row |-> <<>>,
     rows |-> Append(ps.rows, Append(ps.row, ps.field))]

Add(ps, t, next) == [ps EXCEPT !.state = next, !.field = Append(ps.field, t)]

\* the reader after one more token
Step(ps, t) ==
    CASE ps.state = "start" ->
            IF t = Quote THEN [ps EXCEPT !.state = "quoted"]
            ELSE IF t = Comma THEN EndField(ps)
            ELSE IF t = NewLine THEN EndRow(ps)
            ELSE Add(ps, t, "plain")
      [] ps.state = "plain" ->
            IF t = Comma THEN EndField(ps)
            ELSE IF t = NewLine THEN EndRow(ps)
            ELSE Add(ps, t, "plain")
      [] ps.state = "quoted" ->
            IF t = Quote THEN [ps EXCEPT !.state = "closed"]
            ELSE Add(ps, t, "quoted")
      [] ps.state = "closed" ->
            IF t = Quote THEN Add(ps, t, "quoted")
            ELSE IF t = Comma THEN EndField(ps)
            ELSE IF t = NewLine THEN EndRow(ps)
            ELSE Add(ps, t, "plain")

\* the reader after the tokens lo..hi of a text
RECURSIVE Run(_, _, _, _)
Run(ps, text, lo, hi) ==
    IF lo > hi THEN ps
    ELSE IF lo = hi THEN Step(ps, text[lo])
    ELSE LET mid == (lo + hi) \div 2
             half == Run(ps, text, lo, mid)
         IN  IF half.state = "" THEN half ELSE Run(half, text, mid + 1, hi)

\* the rows of a document, its byte-order mark put aside; a last row needs no
\* newline after it
ReadCsv(text) ==
    LET body == IF text # <<>> /\ Head(text) = BOM THEN Tail(text) ELSE text
        ps == Run([state |-> "start", field |-> <<>>, row |-> <<>>, rows |-> <<>>],
                  body, 1, Len(body))
    IN  IF body = <<>> \/ (Len(body) > 0 /\ body[Len(body)] = NewLine /\ ps.state = "start")
        THEN ps.rows
        ELSE Append(ps.rows, Append(ps.row, ps.field))

\* a text with every double quote doubled
Doubled(text) ==
    LET width == [k \in 1..Len(text) |-> IF text[k] = Quote THEN 2 ELSE 1]
        before(k) == SeqSum(SubSeq(width, 1, k - 1))
    IN  [j \in 1..SeqSum(width) |->
            text[CHOOSE k \in 1..Len(text) : before(k) < j /\ j <= before(k) + width[k]]]

\* a step in which a file is offered for download
Downloading == Len(downloads') = Len(downloads) + 1

Downloaded == downloads'[Len(downloads')].text

Exported == filteredAndSortedEntries

\* a field of an entry as text, empty when the entry does not have it
TextOrEmpty(e, f) == IF Has(e, f) THEN e[f] ELSE <<>>

\* the row of an entry with every textual field in double quotes, the double
\* quotes inside it doubled, and the amount bare
QuotedRow(e) ==
    <<Quote>> \o Doubled(DateStr(e)) \o <<Quote, Comma, Quote>>
      \o Doubled(TypeLabel(e)) \o <<Quote, Comma, Quote>>
      \o Doubled(TextOrEmpty(e, "category")) \o <<Quote, Comma>>
      \o <<ToString(e.amount)>> \o <<Comma, Quote>>
      \o Doubled(TextOrEmpty(e, "paymentMethod")) \o <<Quote, Comma, Quote>>
      \o Doubled(TextOrEmpty(e, "memo")) \o <<Quote, Comma, Quote>>
      \o Doubled(Substring(TextOrEmpty(e, "recordedBy"), 8)) \o <<Quote>>

\* where the rows after the header row begin in a document
RECURSIVE RowsText(_)
RowsText(list) ==
    IF list = <<>> THEN <<>>
    ELSE <<NewLine>> \o QuotedRow(Head(list)) \o RowsText(Tail(list))

\* C11: in every exported document each textual field of each entry's row is
\* in double quotes with every double quote inside it doubled, and the amount
\* is unquoted: the document ends with exactly those rows
C11_TextFieldsQuotedAndQuotesDoubled ==
    [][Downloading =>
         LET rowsText == RowsText(Exported)
             n == Len(Downloaded)
         IN  /\ n >= Len(rowsText)
             /\ SubSeq(Downloaded, n - Len(rowsText) + 1, n) = rowsText]_vars

\* what a reader of the document has to find in the columns category, amount,
\* payment method and memo of the row of entry e
RoundTrips(fields, e) ==
    /\ Len(fields) = 7
    /\ fields[3] = TextOrEmpty(e, "category")
    /\ fields[4] = <<ToString(e.amount)>>
    /\ fields[5] = TextOrEmpty(e, "paymentMethod")
    /\ fields[6] = TextOrEmpty(e, "memo")

\* C12: reading an exported document gives a header row and one row per entry,
\* each of 7 fields, whose category, amount, payment method and memo are those
\* of the entry
C12_ExportRoundTrip ==
    [][Downloading =>
         LET rows == ReadCsv(Downloaded)
         IN  /\ Len(rows) = 1 + Len(Exported)
             /\ Len(rows[1]) = 7
             /\ \A k \in 1..Len(Exported) : RoundTrips(rows[k + 1], Exported[k])]_vars

\* C13: an exported document is the header row followed by one row per entry
\* in the order of the list, with the columns date, type label, category,
\* amount, payment method, memo, recorder (first 8 characters); a missing
\* payment method or memo gives an empty field
C13_HeaderThenOneRowPerEntryInOrder ==
    [][Downloading =>
         LET rows == ReadCsv(Downloaded)
         IN  /\ Len(rows) = 1 + Len(Exported)
             /\ rows[1] = [k \in 1..7 |-> <<headers[k]>>]
             /\ \A k \in 1..Len(Exported) :
                  rows[k + 1] = <<DateStr(Exported[k]), TypeLabel(Exported[k]),
                                  TextOrEmpty(Exported[k], "category"),
                                  <<ToString(Exported[k].amount)>>,
                                  TextOrEmpty(Exported[k], "paymentMethod"),
                                  TextOrEmpty(Exported[k], "memo"),
                                  Substring(TextOrEmpty(Exported[k], "recordedBy"), 8)>>]_vars

\* C14: a click on the download button while the list is empty offers no file
\* and shows a message, and every file offered has at least one row after the
\* header row
C14_EmptyListIsNotExported ==
    /\ [](\A k \in 1..Len(downloads) : Len(ReadCsv(downloads[k].text)) >= 2)
    /\ [][HandleDownloadCsv /\ filteredAndSortedEntries = <<>> =>
            /\ downloads' = downloads
            /\ showModal' /\ modalContent' = NothingToDownload]_vars

\* the message is on display after a click on an empty list that holds
\* entries of other months only
C14_Witness ==
    /\ showModal /\ modalContent = NothingToDownload
    /\ entries # <<>> /\ filteredAndSortedEntries = <<>>
    /\ downloads = <<>>

\* the header row as text: the seven column names, each in double quotes,
\* with commas between
HeaderRowText ==
    [j \in 1..(4 * Len(headers) - 1) |->
        CASE j % 4 = 0 -> Comma
          [] j % 4 = 2 -> headers[(j + 2) \div 4]
          [] OTHER -> Quote]

\* C22: every file offered for download begins with the byte-order mark
\* U+FEFF, and the header row follows it at once
C22_DocumentBeginsWithByteOrderMark ==
    \A k \in 1..Len(downloads) :
        LET text == downloads[k].text
        IN  /\ Len(text) > Len(HeaderRowText)
            /\ text[1] = BOM
            /\ SubSeq(text, 2, 1 + Len(HeaderRowText)) = HeaderRowText

\* a file has been offered for a list with entries
C22_Witness ==
    /\ downloads # <<>>
    /\ filteredAndSortedEntries # <<>>
    /\ showModal /\ modalContent = CsvDownloaded

-----------------------------------------------------------------------------
(* InputTab *)

\* how many calls of addDoc one run makes
MaxSubmits == 1

DigitValue ==
    [c \in {"0", "1", "2", "3", "4", "5", "6", "7", "8", "9"} |->
        CASE c = "0" -> 0 [] c = "1" -> 1 [] c = "2" -> 2 [] c = "3" -> 3
          [] c = "4" -> 4 [] c = "5" -> 5 [] c = "6" -> 6 [] c = "7" -> 7
          [] c = "8" -> 8 [] c = "9" -> 9]

IsDigit(c) == c \in DOMAIN DigitValue

\* the value of a run of digits
RECURSIVE DigitsValue(_)
DigitsValue(digits) ==
    IF digits = <<>> THEN 0
    ELSE DigitsValue(SubSeq(digits, 1, Len(digits) - 1)) * 10
         + DigitValue[digits[Len(digits)]]

\* the longest run of digits a text begins with
RECURSIVE LeadingDigits(_)
LeadingDigits(text) ==
    IF text = <<>> \/ ~IsDigit(Head(text)) THEN <<>>
    ELSE <<Head(text)>> \o LeadingDigits(Tail(text))

\* parseFloat(text) for a text of signs, digits and other characters (no
\* blank, decimal point or exponent): the number the text begins with, or NaN
ParseFloat(text) ==
    LET signed == text # <<>> /\ Head(text) \in {"-", "+"}
        digits == LeadingDigits(IF signed THEN Tail(text) ELSE text)
    IN  IF digits = <<>> THEN [isNaN |-> TRUE, value |-> 0]
        ELSE [isNaN |-> FALSE,
              value |-> IF signed /\ Head(text) = "-" THEN 0 - DigitsValue(digits)
                        ELSE DigitsValue(digits)]

\* a guard that turns away negative amounts only
IsInvalidAmountBelowZero(parsedAmount) == parsedAmount.isNaN \/ parsedAmount.value < 0

\* isNaN(parsedAmount) || parsedAmount <= 0
IsInvalidAmount(parsedAmount) == parsedAmount.isNaN \/ parsedAmount.value <= 0

\* new Date("YYYY-MM-DD"): the day's midnight in UTC
ParseISODate(date) == DateUTC(date.year, date.month - 1, date.day, 0, 0, 0)

\* an entryData that carries the payment method whatever the type
EntryDataWithPaymentMethod(f, uid) ==
    [date |-> ParseISODate(f.date), type |-> f.type,
     amount |-> ParseFloat(f.amount).value, category |-> f.category,
     memo |-> f.memo, recordedBy |-> uid, paymentMethod |-> f.paymentMethod]

\* entryData, with paymentMethod added for an expense
EntryData(f, uid) ==
    LET entryData == [date |-> ParseISODate(f.date), type |-> f.type,
                      amount |-> ParseFloat(f.amount).value, category |-> f.category,
                      memo |-> f.memo, recordedBy |-> uid]
    IN  IF f.type = "expense"
        THEN entryData @@ [paymentMethod |-> f.paymentMethod]
        ELSE entryData

NotReady == <<"Firebase is not ready or no ledger id is set">>
EnterValidAmount == <<"enter a valid amount">>
ChooseCategory == <<"choose a category">>
ChoosePaymentMethod == <<"choose a payment method">>
EntryAdded == <<"entry added">>
AddFailed == <<"adding the entry failed">>

\* the message of the first guard of handleSubmit that turns the form away,
\* <<>> when none does (db is set whenever a view is on display)
Rejection(f) ==
    IF userId = null \/ ledgerId = "" THEN NotReady
    ELSE IF IsInvalidAmount(ParseFloat(f.amount)) THEN EnterValidAmount
    ELSE IF f.category = "" THEN ChooseCategory
    ELSE IF f.type = "expense" /\ f.paymentMethod = "" THEN ChoosePaymentMethod
    ELSE <<>>

\* handleSubmit up to its await
HandleSubmit ==
    /\ activeTab = "input"
    /\ IF Rejection(form) # <<>>
       THEN /\ ShowMessage(Rejection(form))
            /\ UNCHANGED <<addDocCalls, submitting>>
       ELSE /\ Len(addDocCalls) < MaxSubmits
            /\ addDocCalls' = Append(addDocCalls, EntryData(form, userId))
            /\ submitting' = submitting \union {Len(addDocCalls')}
            /\ UNCHANGED appVars
    /\ UNCHANGED <<tz, now, activeTab, entries, dashVars, histVars, form,
                   downloads, storeVars>>

\* handleSubmit after addDoc has resolved: the document is in the collection,
\* the form is reset
AddDocResolved(call) ==
    /\ call \in submitting
    /\ submitting' = submitting \ {call}
    /\ Written(addDocCalls[call])
    /\ ShowMessage(EntryAdded)
    /\ form' = [form EXCEPT !.amount = <<>>, !.category = "", !.paymentMethod = "",
                            !.memo = <<>>, !.date = ISODate(now)]
    /\ UNCHANGED <<tz, now, activeTab, entries, dashVars, histVars, addDocCalls,
                   downloads>>

\* handleSubmit after addDoc has failed
AddDocRejected(call) ==
    /\ call \in submitting
    /\ submitting' = submitting \ {call}
    /\ ShowMessage(AddFailed)
    /\ UNCHANGED <<tz, now, activeTab, entries, dashVars, histVars, form,
                   addDocCalls, downloads, storeVars>>

\* the form's controls
SetType(type) ==
    /\ activeTab = "input"
    /\ form' = [form EXCEPT !.type = type]
    /\ UNCHANGED <<tz, now, activeTab, entries, dashVars, histVars, appVars,
                   submitting, addDocCalls, downloads, storeVars>>

SetAmount(amount) ==
    /\ activeTab = "input"
    /\ form' = [form EXCEPT !.amount = amount]
    /\ UNCHANGED <<tz, now, activeTab, entries, dashVars, histVars, appVars,
                   submitting, addDocCalls, downloads, storeVars>>

\* the category lists (one label of each stands for the list)
expenseCategories == {"Food"}
incomeCategories == {"Salary"}

\* the options of the category select: the blank one, then the list of the
\* type on display
CategoryOptions(type) ==
    {""} \union (IF type = "expense" THEN expenseCategories ELSE incomeCategories)

SetCategory(category) ==
    /\ activeTab = "input"
    /\ category \in CategoryOptions(form.type)
    /\ form' = [form EXCEPT !.category = category]
    /\ UNCHANGED <<tz, now, activeTab, entries, dashVars, histVars, appVars,
                   submitting, addDocCalls, downloads, storeVars>>

SetPaymentMethod(paymentMethod) ==
    /\ activeTab = "input"
    /\ form.type = "expense"
    /\ form' = [form EXCEPT !.paymentMethod = paymentMethod]
    /\ UNCHANGED <<tz, now, activeTab, entries, dashVars, histVars, appVars,
                   submitting, addDocCalls, downloads, storeVars>>

SetMemo(memo) ==
    /\ activeTab = "input"
    /\ form' = [form EXCEPT !.memo = memo]
    /\ UNCHANGED <<tz, now, activeTab, entries, dashVars, histVars, appVars,
                   submitting, addDocCalls, downloads, storeVars>>

-----------------------------------------------------------------------------
(* The input form: inputs and specification *)

\* what the amount box may hold: nothing, 0, -1, 1, 12
AmountInputs == {<<>>, <<"0">>, <<"-", "1">>, <<"1">>, <<"1", "2">>}

CategoryInputs == {""} \union expenseCategories \union incomeCategories
PaymentMethodInputs == {"", "Card"}
MemoInputs == {<<>>, <<"lunch">>}

\* the input tab chosen on the main view
InitInput ==
    /\ tz = 9
    /\ now = DateUTC(2024, 2, 15, 3, 0, 0)
    /\ activeTab = "input"
    /\ entries = <<>>
    /\ currentMonth = now
    /\ filteredEntries = <<>>
    /\ summary = Summarize(<<>>)
    /\ trendData = <<>>
    /\ filterMonth = ISOMonth(now)
    /\ filterType = "all"
    /\ filterCategory = "all"
    /\ filterPaymentMethod = "all"
    /\ filteredAndSortedEntries = <<>>
    /\ AppMounted /\ InputTabMounted /\ StoreIdle

NextInput ==
    \/ OnAuthStateChanged
    \/ \E type \in {"expense", "income"} : SetType(type)
    \/ \E amount \in AmountInputs : SetAmount(amount)
    \/ \E category \in CategoryInputs : SetCategory(category)
    \/ \E paymentMethod \in PaymentMethodInputs : SetPaymentMethod(paymentMethod)
    \/ \E memo \in MemoInputs : SetMemo(memo)
    \/ HandleSubmit
    \/ \E call \in 1..MaxSubmits : AddDocResolved(call)
    \/ \E call \in 1..MaxSubmits : AddDocRejected(call)

SpecInput == InitInput /\ [][NextInput]_vars

-----------------------------------------------------------------------------
(* Claims about the input form *)

\* the amount box holds a number above zero, a category is chosen, and an
\* expense has its payment method
ValidForm ==
    /\ ~ParseFloat(form.amount).isNaN /\ ParseFloat(form.amount).value > 0
    /\ form.category # ""
    /\ form.type = "expense" => form.paymentMethod # ""

\* C15: handleSubmit hands an entry to addDoc only for a valid form; for any
\* other form it calls no addDoc, shows a message and leaves the fields as
\* they are; so every entry handed to addDoc has an amount above zero
C15_InvalidInputIsRejected ==
    /\ [](\A k \in 1..Len(addDocCalls) : addDocCalls[k].amount > 0)
    /\ [][HandleSubmit =>
            /\ addDocCalls' # addDocCalls => ValidForm
            /\ ~ValidForm => /\ addDocCalls' = addDocCalls
                             /\ showModal' /\ modalContent' # <<>>
                             /\ form' = form]_vars

\* the amount 0 was turned away by a signed-in user's submit
C15_Witness ==
    /\ userId # null
    /\ form.amount = <<"0">> /\ form.category # ""
    /\ showModal /\ modalContent = EnterValidAmount
    /\ addDocCalls = <<>>

\* C20: an entry handed to addDoc has a paymentMethod field exactly if it is
\* an expense
C20_PaymentMethodIffExpense ==
    \A k \in 1..Len(addDocCalls) :
        Has(addDocCalls[k], "paymentMethod") <=> addDocCalls[k].type = "expense"

\* an income was submitted while the form still held a payment method chosen
\* before the type was switched
C20_Witness ==
    /\ submitting # {}
    /\ \E k \in submitting : addDocCalls[k].type = "income"
    /\ form.type = "income" /\ form.paymentMethod # ""

\* the category list of a type
CategoriesOf(type) == IF type = "expense" THEN expenseCategories ELSE incomeCategories

-----------------------------------------------------------------------------
(* Ledger views and their subscriptions *)

LoadFailed == <<"loading the data failed">>

\* a click on a tab of the navigation bar (App renders it unless the ledger
\* setup is on display): the view on display is unmounted,
\* its effect's cleanup calls unsubscribe(), and the chosen view is mounted
\* with its initial state
SetActiveTabKeepsListening(tab) ==
    /\ ~showLedgerSetup
    /\ tab # activeTab
    /\ activeTab' = tab
    /\ entries' = <<>>
    /\ currentMonth' = now
    /\ filteredEntries' = FilteredEntries(<<>>, now)
    /\ summary' = Summarize(<<>>)
    /\ trendData' = TrendData(<<>>, now)
    /\ filterMonth' = ISOMonth(now)
    /\ filterType' = "all"
    /\ filterCategory' = "all"
    /\ filterPaymentMethod' = "all"
    /\ filteredAndSortedEntries' = <<>>
    /\ form' = FreshForm
    /\ UNCHANGED listeners
    /\ UNCHANGED <<tz, now, appVars, submitting, addDocCalls, downloads, stored,
                   subscribed, inFlight>>

SetActiveTab(tab) ==
    /\ ~showLedgerSetup
    /\ tab # activeTab
    /\ activeTab' = tab
    /\ entries' = <<>>
    /\ currentMonth' = now
    /\ filteredEntries' = FilteredEntries(<<>>, now)
    /\ summary' = Summarize(<<>>)
    /\ trendData' = TrendData(<<>>, now)
    /\ filterMonth' = ISOMonth(now)
    /\ filterType' = "all"
    /\ filterCategory' = "all"
    /\ filterPaymentMethod' = "all"
    /\ filteredAndSortedEntries' = <<>>
    /\ form' = FreshForm
    /\ listeners' = {l \in listeners : l.view # activeTab}
    /\ UNCHANGED <<tz, now, appVars, submitting, addDocCalls, downloads, stored,
                   subscribed, inFlight>>

\* the dependencies of the mounted view's subscription effect that can change
\* ([db, ledgerId, currentMonth, showMessage] / [db, ledgerId, showMessage])
Deps == IF activeTab = "dashboard" THEN currentMonth ELSE 0

\* the subscription effect that leaves the listener of its last run in place
SubscriptionEffectWithoutCleanup ==
    /\ activeTab \in {"dashboard", "history"}
    /\ ledgerId # ""
    /\ ~\E l \in listeners : l.view = activeTab /\ l.deps = Deps
    /\ subscribed < MaxListeners
    /\ subscribed' = subscribed + 1
    /\ LET listener == [id |-> subscribed', view |-> activeTab, deps |-> Deps,
                        ended |-> FALSE]
       IN  /\ listeners' = listeners \union {listener}
           /\ inFlight' = inFlight \union {Snapshot(listener, stored)}
    /\ UNCHANGED <<tz, now, activeTab, entries, dashVars, histVars, appVars,
                   inputVars, downloads, stored>>

\* the subscription effect of the mounted view, run after mount and after a
\* change of its dependencies: the cleanup of its last run (unsubscribe()),
\* then onSnapshot(q, ...), to which the store sends the collection as it is
SubscriptionEffect ==
    /\ activeTab \in {"dashboard", "history"}
    /\ ledgerId # ""
    /\ ~\E l \in listeners : l.view = activeTab /\ l.deps = Deps
    /\ subscribed < MaxListeners
    /\ subscribed' = subscribed + 1
    /\ LET listener == [id |-> subscribed', view |-> activeTab, deps |-> Deps,
                        ended |-> FALSE]
       IN  /\ listeners' = {l \in listeners : l.view # activeTab} \union {listener}
           /\ inFlight' = inFlight \union {Snapshot(listener, stored)}
    /\ UNCHANGED <<tz, now, activeTab, entries, dashVars, histVars, appVars,
                   inputVars, downloads, stored>>

\* some client adds a document to the collection
StoreAdd(doc) ==
    /\ Len(stored) < MaxWrites
    /\ Written(doc)
    /\ UNCHANGED <<tz, now, activeTab, entries, dashVars, histVars, appVars,
                   inputVars, downloads>>

\* the store fails a listener: it sends the error and nothing after it
StoreError(id) ==
    /\ \E l \in listeners :
          /\ l.id = id /\ ~l.ended
          /\ listeners' = (listeners \ {l}) \union {[l EXCEPT !.ended = TRUE]}
    /\ inFlight' = inFlight \union
                      {[listener |-> id, kind |-> "error", seq |-> 0, docs |-> <<>>]}
    /\ UNCHANGED <<tz, now, activeTab, entries, dashVars, histVars, appVars,
                   inputVars, downloads, stored, subscribed>>

\* the listener a delivery is addressed to, while it has not been unsubscribed
Addressee(delivery) == {l \in listeners : l.id = delivery.listener}

\* setEntries(fetchedEntries) and the render that follows, in the view v
SetEntries(v, fetchedEntries) ==
    /\ entries' = IF v = "dashboard"
                  THEN EntriesAfterFilteredEntries(fetchedEntries, currentMonth)
                  ELSE EntriesAfterFilteredAndSortedEntries(fetchedEntries)
    /\ IF v = "dashboard"
       THEN /\ filteredEntries' = FilteredEntries(entries', currentMonth)
            /\ summary' = Summarize(filteredEntries')
            /\ trendData' = TrendData(entries', now)
            /\ UNCHANGED <<currentMonth, histVars>>
       ELSE /\ filteredAndSortedEntries' =
                  FilteredAndSortedEntries(entries', filterMonth, filterType,
                                           filterCategory, filterPaymentMethod)
            /\ UNCHANGED <<dashVars, filterMonth, filterType, filterCategory,
                           filterPaymentMethod>>

\* the error callback that blanks the view
OnSnapshotErrorBlanking(delivery) ==
    /\ delivery \in inFlight /\ delivery.kind = "error"
    /\ Addressee(delivery) # {}
    /\ inFlight' = inFlight \ {delivery}
    /\ \E l \in Addressee(delivery) :
          IF l.view = activeTab
          THEN SetEntries(l.view, <<>>) /\ ShowMessage(LoadFailed)
          ELSE UNCHANGED <<entries, dashVars, histVars, appVars>>
    /\ UNCHANGED <<tz, now, activeTab, inputVars, downloads, stored, subscribed,
                   listeners>>

\* onSnapshot's callback: setEntries(snapshot.docs.map(...)); a state setter of
\* a view that is no longer mounted does nothing
OnSnapshot(delivery) ==
    /\ delivery \in inFlight /\ delivery.kind = "snapshot"
    /\ Addressee(delivery) # {}
    /\ inFlight' = inFlight \ {delivery}
    /\ \E l \in Addressee(delivery) :
          IF l.view = activeTab
          THEN SetEntries(l.view, delivery.docs)
          ELSE UNCHANGED <<entries, dashVars, histVars>>
    /\ UNCHANGED <<tz, now, activeTab, appVars, inputVars, downloads, stored,
                   subscribed, listeners>>

\* onSnapshot's error callback: console.error and showMessage
OnSnapshotError(delivery) ==
    /\ delivery \in inFlight /\ delivery.kind = "error"
    /\ Addressee(delivery) # {}
    /\ inFlight' = inFlight \ {delivery}
    /\ \E l \in Addressee(delivery) :
          IF l.view = activeTab
          THEN ShowMessage(LoadFailed) /\ UNCHANGED <<entries, dashVars, histVars>>
          ELSE UNCHANGED <<entries, dashVars, histVars, appVars>>
    /\ UNCHANGED <<tz, now, activeTab, inputVars, downloads, stored, subscribed,
                   listeners>>

\* what the store had sent to a listener that has been unsubscribed since is
\* not delivered
Muted(delivery) ==
    /\ delivery \in inFlight
    /\ Addressee(delivery) = {}
    /\ inFlight' = inFlight \ {delivery}
    /\ UNCHANGED <<tz, now, activeTab, entries, dashVars, histVars, appVars,
                   inputVars, downloads, stored, subscribed, listeners>>

-----------------------------------------------------------------------------
(* The ledger views: inputs and specification *)

\* an expense of 2024-03-05
LedgerDocs == ExpenseDocs({DateUTC(2024, 2, 5, 0, 0, 0)}, {1}, {"Food"}, {"Cash"})

\* the two tabs whose views subscribe to the collection
Tabs == {"dashboard", "history"}

\* the dashboard on display, its effect not yet run
InitLedger ==
    /\ tz = 9
    /\ now = DateUTC(2024, 2, 15, 3, 0, 0)
    /\ DashboardMounted
    /\ AppMounted /\ InputTabMounted /\ StoreIdle

NextLedger ==
    \/ \E tab \in Tabs : SetActiveTab(tab)
    \/ SubscriptionEffect
    \/ \E direction \in {0 - 1, 1} : HandleMonthChange(direction)
    \/ \E doc \in LedgerDocs : StoreAdd(doc)
    \/ \E id \in 1..MaxListeners : StoreError(id)
    \/ \E delivery \in inFlight : OnSnapshot(delivery)
    \/ \E delivery \in inFlight : OnSnapshotError(delivery)
    \/ \E delivery \in inFlight : Muted(delivery)

SpecLedger == InitLedger /\ [][NextLedger]_vars

-----------------------------------------------------------------------------
(* Claims about the ledger views and their subscriptions *)

\* what a ledger view shows: its entries and everything computed from them
viewVars == <<entries, dashVars, histVars>>

\* C16: the error callback of a subscription leaves the view's entries, and
\* with them the summary, the trend and the list, as they were, and a message
\* is on display after it
C16_ErrorKeepsTheViews ==
    [][(\E delivery \in inFlight : OnSnapshotError(delivery)) =>
          /\ UNCHANGED viewVars
          /\ showModal' /\ modalContent' = LoadFailed]_vars

\* the message is on display over a dashboard that still shows its entry
C16_Witness ==
    /\ activeTab = "dashboard"
    /\ showModal /\ modalContent = LoadFailed
    /\ entries # <<>> /\ summary.totalExpense > 0
    /\ \E l \in listeners : l.ended

\* C17: a mounted ledger view holds at most one subscription, the one its
\* effect made last, and there is no subscription of a view that has been
\* left or of an earlier run of the effect
C17_OneSubscriptionPerMountedView ==
    /\ Cardinality(listeners) <= 1
    /\ \A l \in listeners : l.view = activeTab /\ l.id = subscribed

\* the dashboard after a month button: the effect has run again and the only
\* subscription is the new one
C17_Witness ==
    /\ activeTab = "dashboard" /\ currentMonth # now
    /\ subscribed = 2
    /\ \E l \in listeners : l.id = 2 /\ l.deps = currentMonth
    /\ \E delivery \in inFlight : delivery.listener = 1

\* the sequence position of the snapshot a view holds: the collection only
\* grows, so a snapshot's position is the number of its documents
HeldSeq == Len(entries)

\* C18: while a view stays mounted, the sequence position of the snapshot in
\* its entries never decreases, in whatever order the snapshots are delivered
C18_StaleSnapshotIsDiscarded ==
    [][activeTab' = activeTab => HeldSeq' >= HeldSeq]_vars

\* a listener whose effect's cleanup has run: it is not the listener of the
\* last run of the mounted view's effect
Released(id) ==
    ~\E l \in listeners : l.id = id /\ l.id = subscribed /\ l.view = activeTab

\* C19: a delivery that was in flight for a released subscription leaves the
\* view's entries and everything computed from them alone and shows no message
C19_NoCallbackAfterRelease ==
    [][\A delivery \in inFlight :
          delivery \notin inFlight' /\ Released(delivery.listener) =>
              UNCHANGED <<viewVars, appVars>>]_vars

\* a snapshot is still in flight for the listener that a month button's
\* effect has released, and the view holds a different collection
C19_Witness ==
    /\ subscribed = 2 /\ activeTab = "dashboard"
    /\ \E delivery \in inFlight :
          /\ delivery.listener = 1 /\ delivery.kind = "snapshot"
          /\ delivery.docs # entries
    /\ entries # <<>>

-----------------------------------------------------------------------------
(* HistoryTab: the filter controls *)

\* the month input: setFilterMonth(e.target.value), and the render that
\* follows recomputes the list
SetFilterMonth(value) ==
    /\ activeTab = "history"
    /\ filterMonth' = value
    /\ entries' = EntriesAfterFilteredAndSortedEntries(entries)
    /\ filteredAndSortedEntries' =
          FilteredAndSortedEntries(entries, filterMonth', filterType,
                                   filterCategory, filterPaymentMethod)
    /\ UNCHANGED <<tz, now, activeTab, dashVars, filterType,
                   filterCategory, filterPaymentMethod>>
    /\ UNCHANGED <<appVars, inputVars, downloads, storeVars>>

\* a type select that leaves the list of the last render in place
SetFilterTypeKeepingList(value) ==
    /\ activeTab = "history"
    /\ filterType' = value
    /\ UNCHANGED <<tz, now, activeTab, entries, dashVars, filterMonth,
                   filterCategory, filterPaymentMethod, filteredAndSortedEntries>>
    /\ UNCHANGED <<appVars, inputVars, downloads, storeVars>>

\* the type select: setFilterType(e.target.value)
SetFilterType(value) ==
    /\ activeTab = "history"
    /\ filterType' = value
    /\ entries' = EntriesAfterFilteredAndSortedEntries(entries)
    /\ filteredAndSortedEntries' =
          FilteredAndSortedEntries(entries, filterMonth, filterType',
                                   filterCategory, filterPaymentMethod)
    /\ UNCHANGED <<tz, now, activeTab, dashVars, filterMonth,
                   filterCategory, filterPaymentMethod>>
    /\ UNCHANGED <<appVars, inputVars, downloads, storeVars>>

SetCategoryIsNotDefined == "ReferenceError: setCategory is not defined"
SetPaymentMethodIsNotDefined == "ReferenceError: setPaymentMethod is not defined"

\* an event handler that throws: the error reaches nobody, no state changes
Throw(error) ==
    /\ uncaught' = uncaught \union {error}
    /\ UNCHANGED <<userId, ledgerId, modalContent, showModal, ledgerVars>>

\* the category select: onChange calls setCategory, a name that HistoryTab
\* does not declare (its setter is setFilterCategory)
ChangeFilterCategory(value) ==
    /\ activeTab = "history"
    /\ Throw(SetCategoryIsNotDefined)
    /\ UNCHANGED <<tz, now, activeTab, entries, dashVars, histVars, inputVars,
                   downloads, storeVars>>

\* the payment method select, which is part of the view unless filterType is
\* 'income': onChange calls setPaymentMethod, a name that HistoryTab does not
\* declare
ChangeFilterPaymentMethod(value) ==
    /\ activeTab = "history"
    /\ filterType # "income"
    /\ Throw(SetPaymentMethodIsNotDefined)
    /\ UNCHANGED <<tz, now, activeTab, entries, dashVars, histVars, inputVars,
                   downloads, storeVars>>

\* building the view from the state: the payment method select is built
\* unless filterType is 'income', and its value is read from paymentMethod, a
\* name that HistoryTab does not declare
HistoryTabThrows(fType) == fType # "income"

-----------------------------------------------------------------------------
(* The two ledger views: inputs and specification *)

\* what the month input can hold: "YYYY-MM", or "" when it is cleared
MonthInputs == {"", "2024-02", "2024-03"}

\* the options of the category and payment method selects that are used
CategoryChoices == {"all", "Food"}
PaymentMethodChoices == {"all", "Card"}

\* 2024-02-20, 2024-03-01 and 2024-03-05, 00:00 UTC
EarlierMonth == {DateUTC(2024, 1, 20, 0, 0, 0)}
FirstOfMonth == {DateUTC(2024, 2, 1, 0, 0, 0)}
FifthOfMonth == {DateUTC(2024, 2, 5, 0, 0, 0)}

\* the documents the dashboard receives
DashboardDocs ==
    IncomeDocs(FirstOfMonth, {1})
    \union ExpenseDocs(EarlierMonth \union FifthOfMonth, {2}, {"Food"}, {"Card"})

\* the documents the history view receives
HistoryDocs ==
    [date : EarlierMonth \union FifthOfMonth, type : {"income"}, amount : {1},
     category : {<<"Salary">>}, memo : {<<"pay">>}, recordedBy : {ExportRecorder}]
    \union
    [date : FirstOfMonth, type : {"expense"}, amount : {2}, category : {<<"Food">>},
     paymentMethod : {<<"Card">>}, memo : {<<"lunch">>}, recordedBy : {ExportRecorder}]

\* one of the two views with the state it has at mount
InitViews ==
    /\ tz \in TimeZones
    /\ now = DateUTC(2024, 2, 15, 3, 0, 0)
    /\ activeTab \in {"dashboard", "history"}
    /\ entries = <<>>
    /\ currentMonth = now
    /\ filteredEntries = FilteredEntries(<<>>, now)
    /\ summary = Summarize(<<>>)
    /\ trendData = TrendData(<<>>, now)
    /\ filterMonth = ISOMonth(now)
    /\ filterType = "all"
    /\ filterCategory = "all"
    /\ filterPaymentMethod = "all"
    /\ filteredAndSortedEntries = <<>>
    /\ AppMounted /\ InputTabMounted /\ StoreIdle

NextViews ==
    \/ \E doc \in DashboardDocs : DashboardSnapshot(doc)
    \/ \E direction \in {0 - 1, 1} : HandleMonthChange(direction)
    \/ \E doc \in HistoryDocs : HistorySnapshot(doc)
    \/ \E value \in MonthInputs : SetFilterMonth(value)
    \/ \E value \in FilterTypes : SetFilterType(value)
    \/ \E value \in CategoryChoices : ChangeFilterCategory(value)
    \/ \E value \in PaymentMethodChoices : ChangeFilterPaymentMethod(value)
    \/ HandleDownloadCsv

SpecViews == InitViews /\ [][NextViews]_vars

-----------------------------------------------------------------------------
(* Claims about the two ledger views *)

\* C25: after any sequence of snapshots delivered in order and of month and
\* filter changes, the dashboard's list and summary are those of the entries
\* held and the selected month, and the history list is that of the entries
\* held and the filter values held: nothing computed from an earlier snapshot
\* or an earlier parameter value is left
C25_ViewsAreRecomputedFromTheLatestSnapshot ==
    /\ activeTab = "dashboard" =>
          /\ filteredEntries = FilteredEntries(entries, currentMonth)
          /\ summary = Summarize(FilteredEntries(entries, currentMonth))
    /\ activeTab = "history" =>
          filteredAndSortedEntries =
             FilteredAndSortedEntries(entries, filterMonth, filterType,
                                      filterCategory, filterPaymentMethod)

\* the history view holds two entries of which the month and type filters,
\* both changed since the view was mounted, list one
C25_Witness ==
    /\ activeTab = "history"
    /\ Len(entries) = 2 /\ filterType = "income" /\ filterMonth = "2024-02"
    /\ Len(filteredAndSortedEntries) = 1

\* C26: computing the summary, the trend and the list, and exporting, leave
\* the entries a view holds as they were delivered: a step either keeps
\* entries, element for element, or is a snapshot that adds its document at
\* the end of them
C26_EntriesAreNotModified ==
    [][\/ entries' = entries
       \/ /\ Len(entries') = Len(entries) + 1
          /\ SubSeq(entries', 1, Len(entries)) = entries
          /\ entries'[Len(entries')].id = Len(entries')]_vars

\* the dashboard lists its two entries in another order than it holds them
C26_Witness ==
    /\ activeTab = "dashboard"
    /\ Len(entries) = 2 /\ Len(filteredEntries) = 2
    /\ filteredEntries # entries
    /\ EntryDate(entries[1]) < EntryDate(entries[2])

\* C29: the history view can be built for every value of the type filter,
\* and each of the four filter controls sets its own filter to the value
\* chosen and leaves the other three filters alone, so that the list is the
\* query result for any combination of values a user chooses
C29_FilterControlsSetTheirFilters ==
    /\ [](activeTab = "history" => ~HistoryTabThrows(filterType))
    /\ [][\A value \in MonthInputs :
             SetFilterMonth(value) =>
                 /\ filterMonth' = value
                 /\ UNCHANGED <<filterType, filterCategory, filterPaymentMethod>>]_vars
    /\ [][\A value \in FilterTypes :
             SetFilterType(value) =>
                 /\ filterType' = value
                 /\ UNCHANGED <<filterMonth, filterCategory, filterPaymentMethod>>]_vars
    /\ [][\A value \in CategoryChoices :
             ChangeFilterCategory(value) =>
                 /\ filterCategory' = value
                 /\ UNCHANGED <<filterMonth, filterType, filterPaymentMethod>>]_vars
    /\ [][\A value \in PaymentMethodChoices :
             ChangeFilterPaymentMethod(value) =>
                 /\ filterPaymentMethod' = value
                 /\ UNCHANGED <<filterMonth, filterType, filterCategory>>]_vars

-----------------------------------------------------------------------------
(* The month buttons: inputs and specification *)

\* 2024-01-31, 2024-03-15 and 2024-03-31, 03:00 UTC: the dashboard is opened
\* on the 30th or 31st of a month (30th until 22:00 in New York, 31st in
\* Seoul), or on the 14th or 15th
MonthNows ==
    {DateUTC(2024, 0, 31, 3, 0, 0), DateUTC(2024, 2, 15, 3, 0, 0),
     DateUTC(2024, 2, 31, 3, 0, 0)}

InitMonth ==
    /\ tz \in TimeZones
    /\ now \in MonthNows
    /\ DashboardMounted
    /\ AppMounted /\ InputTabMounted /\ StoreIdle

NextMonth ==
    \/ \E direction \in {0 - 1, 1} : HandleMonthChange(direction)
    \/ \E doc \in DashboardDocs : DashboardSnapshot(doc)

SpecMonth == InitMonth /\ [][NextMonth]_vars

\* C27: a press of the next (previous) month button selects the calendar
\* month right after (before) the selected one, whatever the day of the month
\* on which the dashboard was opened
C27_MonthButtonMovesOneMonth ==
    [][\A direction \in {0 - 1, 1} :
          HandleMonthChange(direction) =>
              MonthNumber(currentMonth') = MonthNumber(currentMonth) + direction]_vars

-----------------------------------------------------------------------------
(* App and SettingsTab: creating, joining and leaving a ledger *)

\* the segments of `artifacts/${appId}/public/data/household_ledgers`
LedgersPathSegments == 5

\* the segments a ledger id adds to that path: doc() splits it at each '/'
IdSegments(id) == IF id = "ledger/1" THEN 2 ELSE 1

\* doc(db, path, id) throws unless the path names a document, that is, has an
\* even number of segments
DocThrows(id) == (LedgersPathSegments + IdSegments(id)) % 2 # 0

InvalidDocumentReference == "FirebaseError: Invalid document reference"

FirebaseNotReady == <<"Firebase is not ready yet, try again later">>
LedgerCreated(id) == <<"new ledger created, its id is ", id>>
CreateFailed == <<"creating the ledger failed">>
EnterLedgerId == <<"enter a ledger id">>
LedgerJoined == <<"joined the ledger">>
NoSuchLedger == <<"no ledger has this id">>
JoinFailed == <<"joining the ledger failed">>

\* the frame of a ledger handler: the clock, the views and the entries
\* collection are not touched
LedgerFrame ==
    UNCHANGED <<tz, now, activeTab, entries, dashVars, histVars, inputVars,
                downloads, storeVars>>

\* handleCreateLedger up to its await: the guard on userId, then setDoc is
\* called for a document named by crypto.randomUUID()
HandleCreateLedger(newLedgerId) ==
    /\ showLedgerSetup
    /\ IF userId = null
       THEN ShowMessage(FirebaseNotReady)
       ELSE /\ Cardinality(ledgerCalls) < MaxLedgerCalls
            /\ ledgerCalls' = ledgerCalls \union
                                 {[op |-> "setDoc", id |-> newLedgerId]}
            /\ UNCHANGED <<userId, ledgerId, modalContent, showModal,
                           showLedgerSetup, localStorage, uncaught>>
    /\ LedgerFrame

\* setDoc resolved, but the id is not written to localStorage
SetDocResolvedNotPersisted(call) ==
    /\ call \in ledgerCalls /\ call.op = "setDoc"
    /\ ledgerCalls' = ledgerCalls \ {call}
    /\ ledgerId' = call.id
    /\ SetModal(LedgerCreated(call.id))
    /\ showLedgerSetup' = FALSE
    /\ UNCHANGED <<userId, localStorage, uncaught>>
    /\ LedgerFrame

\* setDoc resolved: setLedgerId, localStorage.setItem, showMessage,
\* setShowLedgerSetup(false)
SetDocResolved(call) ==
    /\ call \in ledgerCalls /\ call.op = "setDoc"
    /\ ledgerCalls' = ledgerCalls \ {call}
    /\ ledgerId' = call.id
    /\ localStorage' = call.id
    /\ SetModal(LedgerCreated(call.id))
    /\ showLedgerSetup' = FALSE
    /\ UNCHANGED <<userId, uncaught>>
    /\ LedgerFrame

\* setDoc rejected: the catch block shows a message
SetDocRejected(call) ==
    /\ call \in ledgerCalls /\ call.op = "setDoc"
    /\ ledgerCalls' = ledgerCalls \ {call}
    /\ SetModal(CreateFailed)
    /\ UNCHANGED <<userId, ledgerId, showLedgerSetup, localStorage, uncaught>>
    /\ LedgerFrame

\* handleJoinLedger(inputLedgerId) up to its await: the guards on userId and
\* on the id, then doc(), which is called before the try block, then getDoc
HandleJoinLedger(inputLedgerId) ==
    /\ showLedgerSetup
    /\ IF userId = null
       THEN ShowMessage(FirebaseNotReady)
       ELSE IF inputLedgerId = ""
       THEN ShowMessage(EnterLedgerId)
       ELSE IF DocThrows(inputLedgerId)
       THEN Throw(InvalidDocumentReference)
       ELSE /\ Cardinality(ledgerCalls) < MaxLedgerCalls
            /\ ledgerCalls' = ledgerCalls \union
                                 {[op |-> "getDoc", id |-> inputLedgerId]}
            /\ UNCHANGED <<userId, ledgerId, modalContent, showModal,
                           showLedgerSetup, localStorage, uncaught>>
    /\ LedgerFrame

\* getDoc resolved: if docSnap.exists() the ledger is joined (setLedgerId,
\* localStorage.setItem, showMessage, setShowLedgerSetup(false)), else a
\* message is shown
GetDocResolved(call, exists) ==
    /\ call \in ledgerCalls /\ call.op = "getDoc"
    /\ ledgerCalls' = ledgerCalls \ {call}
    /\ IF exists
       THEN /\ ledgerId' = call.id
            /\ localStorage' = call.id
            /\ SetModal(LedgerJoined)
            /\ showLedgerSetup' = FALSE
       ELSE /\ SetModal(NoSuchLedger)
            /\ UNCHANGED <<ledgerId, localStorage, showLedgerSetup>>
    /\ UNCHANGED <<userId, uncaught>>
    /\ LedgerFrame

\* getDoc rejected: the catch block shows a message
GetDocRejected(call) ==
    /\ call \in ledgerCalls /\ call.op = "getDoc"
    /\ ledgerCalls' = ledgerCalls \ {call}
    /\ SetModal(JoinFailed)
    /\ UNCHANGED <<userId, ledgerId, showLedgerSetup, localStorage, uncaught>>
    /\ LedgerFrame

\* useState(localStorage.getItem('householdLedgerId') || '')
InitialLedgerId(item) == IF item = null THEN "" ELSE item

\* SettingsTab.handleResetLedger: localStorage.removeItem, then
\* window.location.reload().  The page is loaded again: App and the dashboard
\* are constructed anew, and what the old page awaited or listened to is gone
\* with it.  The state described is the one in which Firebase has reported
\* that nobody is signed in yet.
HandleResetLedger ==
    /\ activeTab = "settings" /\ ~showLedgerSetup
    /\ localStorage' = null
    /\ ledgerId' = InitialLedgerId(localStorage')
    /\ showLedgerSetup' = (ledgerId' = "")
    /\ userId' = null
    /\ modalContent' = <<>>
    /\ showModal' = FALSE
    /\ ledgerCalls' = {}
    /\ uncaught' = {}
    /\ activeTab' = "dashboard"
    /\ entries' = <<>>
    /\ currentMonth' = now
    /\ filteredEntries' = FilteredEntries(<<>>, now)
    /\ summary' = Summarize(<<>>)
    /\ trendData' = TrendData(<<>>, now)
    /\ filterMonth' = ISOMonth(now)
    /\ filterType' = "all"
    /\ filterCategory' = "all"
    /\ filterPaymentMethod' = "all"
    /\ filteredAndSortedEntries' = <<>>
    /\ form' = FreshForm
    /\ submitting' = {}
    /\ listeners' = {}
    /\ inFlight' = {}
    /\ UNCHANGED <<tz, now, addDocCalls, downloads, stored, subscribed>>

-----------------------------------------------------------------------------
(* The ledger id: inputs and specification *)

\* what crypto.randomUUID() returns
NewLedgerIds == {"ledger-2", "ledger-3"}

\* what is typed into the ledger id box
JoinInputs == {"", "ledger-1", "ledger/1"}

\* where the navigation bar leads in this specification
LedgerTabs == {"dashboard", "settings"}

\* the page just loaded, with or without a ledger id in localStorage
InitLedgerId ==
    /\ tz = 9
    /\ now = NewDate(2024, 2, 15, 3, 0, 0) - tz * TicksPerHour
    /\ DashboardMounted
    /\ InputTabMounted /\ StoreIdle
    /\ localStorage \in {null, "ledger-1"}
    /\ ledgerId = InitialLedgerId(localStorage)
    /\ showLedgerSetup = (ledgerId = "")
    /\ userId = null
    /\ modalContent = <<>>
    /\ showModal = FALSE
    /\ ledgerCalls = {}
    /\ uncaught = {}

NextLedgerId ==
    \/ OnAuthStateChanged
    \/ CloseModal
    \/ \E tab \in LedgerTabs : SetActiveTab(tab)
    \/ \E newLedgerId \in NewLedgerIds : HandleCreateLedger(newLedgerId)
    \/ \E call \in ledgerCalls : SetDocResolved(call)
    \/ \E call \in ledgerCalls : SetDocRejected(call)
    \/ \E inputLedgerId \in JoinInputs : HandleJoinLedger(inputLedgerId)
    \/ \E call \in ledgerCalls, exists \in BOOLEAN : GetDocResolved(call, exists)
    \/ \E call \in ledgerCalls : GetDocRejected(call)
    \/ HandleResetLedger

SpecLedgerId == InitLedgerId /\ [][NextLedgerId]_vars

====
